---- MODULE Spec2Model ----
(***************************************************************************)
(* Model of the bit-flag classes of @maks11060/bits:                       *)
(*   BitSet (src/src/bitSet.ts)  number- or bigint-backed, with a registry *)
(*   Bits   (src/src/bits.ts)    number-backed                             *)
(*   BitsN  (src/src/bitsn.ts)   bigint-backed                             *)
(* and of the factory BitSet.Instance(options) with its string and object  *)
(* constructors.                                                           *)
(*                                                                         *)
(* An integer is kept in binary, as a two's-complement numeral of          *)
(* unbounded length: [neg |-> FALSE, bits |-> S] is the sum of 2^i for i   *)
(* in S, and [neg |-> TRUE, bits |-> S] is -1 minus that sum (S holds the  *)
(* positions that are 0).  The ECMAScript operators |, &, ^, ~, <<, >>>    *)
(* and the conversions ToInt32 / ToUint32 are defined on that numeral.     *)
(***************************************************************************)
EXTENDS Integers, Sequences, FiniteSets, TLC

\* (twin: the #value of the second, bigint-backed BitSet when a pair of
\* instances is at hand)
VARIABLES cls, options, value, last, twin

vars == <<cls, options, value, last, twin>>

(***************************************************************************)
(* Bounds of the model.                                                    *)
(***************************************************************************)
\* the largest raw bit index the callers pass (indices 32..MaxIndex are
\* beyond the narrow range)
MaxIndex == 32
\* the longest argument list given to write(...)
MaxWriteLen == 3
\* the longest string given to the string constructors of the factory
MaxTextLen == 3
\* the most keys of an object given to from / fromBigInt
MaxObjKeys == 2

(***************************************************************************)
(* Program constant.                                                       *)
(***************************************************************************)
\* `n > 31` in BitSet.bit
MaxNarrowBit == 31

(***************************************************************************)
(* ECMAScript integers and bitwise operators.                              *)
(***************************************************************************)
\* the bit positions of a 32-bit word
Int32Bits == 0..31

Pos(S) == [neg |-> FALSE, bits |-> S]
Neg(S) == [neg |-> TRUE, bits |-> S]
Zero == Pos({})

\* is bit i of the numeral x a 1
BitAt(x, i) == IF x.neg THEN i \notin x.bits ELSE i \in x.bits

\* ~x
BitNot(x) == [neg |-> ~x.neg, bits |-> x.bits]

\* x & y
BitAnd(x, y) ==
  IF ~x.neg /\ ~y.neg THEN Pos(x.bits \cap y.bits)
  ELSE IF ~x.neg /\ y.neg THEN Pos(x.bits \ y.bits)
  ELSE IF x.neg /\ ~y.neg THEN Pos(y.bits \ x.bits)
  ELSE Neg(x.bits \cup y.bits)

\* x | y
BitOr(x, y) ==
  IF ~x.neg /\ ~y.neg THEN Pos(x.bits \cup y.bits)
  ELSE IF ~x.neg /\ y.neg THEN Neg(y.bits \ x.bits)
  ELSE IF x.neg /\ ~y.neg THEN Neg(x.bits \ y.bits)
  ELSE Neg(x.bits \cap y.bits)

\* x ^ y
BitXor(x, y) ==
  [neg |-> (x.neg # y.neg),
   bits |-> (x.bits \ y.bits) \cup (y.bits \ x.bits)]

\* ToUint32: the low 32 bits, read as an unsigned integer
ToUint32(x) == Pos({i \in Int32Bits : BitAt(x, i)})

\* ToInt32: the low 32 bits, read as a signed integer
ToInt32(x) ==
  IF BitAt(x, 31)
    THEN Neg({i \in Int32Bits : ~BitAt(x, i)})
    ELSE Pos({i \in Int32Bits : BitAt(x, i)})

\* Number operators: both operands go through ToInt32
NumOr(x, y) == BitOr(ToInt32(x), ToInt32(y))
NumAnd(x, y) == BitAnd(ToInt32(x), ToInt32(y))
NumXor(x, y) == BitXor(ToInt32(x), ToInt32(y))
NumNot(x) == BitNot(ToInt32(x))
\* 1 << n on Numbers: the shift count is n mod 32, the result an int32
NumShl1(n) == ToInt32(Pos({n % 32}))
\* a slip: >> 0 in place of >>> 0 (the result stays signed)
NumUShr0_signed(x) == ToInt32(x)

\* x >>> 0
NumUShr0(x) == ToUint32(x)
\* 1n << n on BigInts (a negative count shifts right)
BigShl1(n) == IF n >= 0 THEN Pos({n}) ELSE Zero

(***************************************************************************)
(* BigInt.prototype.toString(): the decimal digits of a numeral.           *)
(***************************************************************************)
DigitChar(d) == <<"0", "1", "2", "3", "4", "5", "6", "7", "8", "9">>[d + 1]

\* 2 * d + c on a little-endian digit sequence
RECURSIVE DoubleAdd(_, _)
DoubleAdd(d, c) ==
  IF d = <<>> THEN (IF c = 0 THEN <<>> ELSE <<c>>)
  ELSE LET s == 2 * Head(d) + c
       IN <<s % 10>> \o DoubleAdd(Tail(d), s \div 10)

\* d + c on a little-endian digit sequence
RECURSIVE AddSmall(_, _)
AddSmall(d, c) ==
  IF c = 0 THEN d
  ELSE IF d = <<>> THEN <<c>>
  ELSE LET s == Head(d) + c
       IN <<s % 10>> \o AddSmall(Tail(d), s \div 10)

\* the little-endian decimal digits of the numeral with the bits S: from
\* the bit k down to bit 0, acc (the digits of the bits above k) is doubled
\* and the bit added
RECURSIVE DecLE(_, _, _)
DecLE(S, k, acc) ==
  IF k < 0 THEN acc
  ELSE DecLE(S, k - 1, DoubleAdd(acc, IF k \in S THEN 1 ELSE 0))

MaxOf(S) == CHOOSE m \in S : \A i \in S : i <= m

Magnitude(x) ==
  LET m == IF x.bits = {} THEN <<>> ELSE DecLE(x.bits, MaxOf(x.bits), <<>>)
  IN IF x.neg THEN AddSmall(m, 1) ELSE m

Reverse(s) == [i \in 1..Len(s) |-> s[Len(s) + 1 - i]]

ToDecimalString(x) ==
  LET m == Magnitude(x)
      ds == [i \in 1..Len(m) |-> DigitChar(Reverse(m)[i])]
  IN IF m = <<>> THEN <<"0">>
     ELSE IF x.neg THEN <<"-">> \o ds ELSE ds

(***************************************************************************)
(* Number.prototype.toString(radix) of an integer and                     *)
(* BigInt.prototype.toString(radix), for the radices 2 and 16: a "-" for a *)
(* negative value, then the digits of the magnitude, most significant      *)
(* first, no leading zero.  A string is the sequence of its characters.    *)
(***************************************************************************)
\* S + 1 on the bit positions of a non-negative numeral
Increment(S) ==
  LET k == CHOOSE i \in 0..Cardinality(S) :
             i \notin S /\ \A j \in 0..(i - 1) : j \in S
  IN (S \ (0..k)) \cup {k}

\* the bit positions of |x|
MagnitudeBits(x) == IF x.neg THEN Increment(x.bits) ELSE x.bits

HexChar(d) ==
  <<"0", "1", "2", "3", "4", "5", "6", "7", "8", "9",
    "a", "b", "c", "d", "e", "f">>[d + 1]

\* the digit of weight (2^w)^j in the numeral with the bits m
DigitOf(m, j, w) ==
  LET Bit(i) == IF w * j + i \in m THEN 2 ^ i ELSE 0
  IN IF w = 1 THEN Bit(0) ELSE Bit(0) + Bit(1) + Bit(2) + Bit(3)

\* x.toString(2 ^ w), w = 1 or 4
ToStringPow2(x, w) ==
  LET m == MagnitudeBits(x)
      top == IF m = {} THEN 0 ELSE MaxOf(m) \div w
      ds == [i \in 1..(top + 1) |-> HexChar(DigitOf(m, top + 1 - i, w))]
  IN IF x.neg THEN <<"-">> \o ds ELSE ds

(***************************************************************************)
(* parseInt(string, radix) and BigInt(string), on strings without white    *)
(* space and with lower-case digits.                                       *)
(***************************************************************************)
NaN == [nan |-> TRUE, neg |-> FALSE, bits |-> {}]
Finite(x) == [nan |-> FALSE, neg |-> x.neg, bits |-> x.bits]

\* the value of a digit character; 36 for a character that is no digit
DigitValue(c) ==
  IF \E d \in 0..15 : HexChar(d) = c
    THEN CHOOSE d \in 0..15 : HexChar(d) = c
    ELSE 36

\* the length of the longest prefix of s made of digits of the radix
DigitPrefixLen(s, radix) ==
  CHOOSE k \in 0..Len(s) :
    /\ \A i \in 1..k : DigitValue(s[i]) < radix
    /\ k = Len(s) \/ DigitValue(s[k + 1]) >= radix

\* the bit positions of the number written by the digits ds in radix 2^w
DigitsToBits(ds, w) ==
  {b \in 0..(w * Len(ds) - 1) :
     (DigitValue(ds[Len(ds) - (b \div w)]) \div (2 ^ (b % w))) % 2 = 1}

\* the value of a string of at most nine decimal digits
RECURSIVE DecimalValue(_)
DecimalValue(ds) ==
  IF ds = <<>> THEN 0
  ELSE 10 * DecimalValue(SubSeq(ds, 1, Len(ds) - 1)) + DigitValue(ds[Len(ds)])

\* the bit positions of a natural number below 2^31
NatToBits(n) == {i \in 0..30 : (n \div (2 ^ i)) % 2 = 1}

\* S - 1 on the bit positions of a positive numeral
Decrement(S) ==
  LET k == CHOOSE i \in S : \A j \in S : i <= j
  IN (S \ {k}) \cup (0..(k - 1))

\* the numeral of sign * magnitude
Signed(neg, m) == IF neg /\ m # {} THEN Neg(Decrement(m)) ELSE Pos(m)

\* a slip: the sign of the string is dropped
ParseInt_noSign(str, radix) ==
  LET unsigned == IF str # <<>> /\ Head(str) \in {"+", "-"}
                    THEN Tail(str) ELSE str
      n == DigitPrefixLen(unsigned, radix)
  IN IF n = 0 THEN NaN
     ELSE Finite(Pos(DigitsToBits(SubSeq(unsigned, 1, n),
                                  IF radix = 2 THEN 1 ELSE 4)))

\* parseInt(str, radix), radix 2 or 16: an optional sign, for radix 16 an
\* optional 0x, then the longest prefix of digits of the radix; what
\* follows is ignored, and NaN is returned when there is no digit
ParseInt(str, radix) ==
  LET neg == str # <<>> /\ Head(str) = "-"
      unsigned == IF str # <<>> /\ Head(str) \in {"+", "-"}
                    THEN Tail(str) ELSE str
      body == IF radix = 16 /\ Len(unsigned) >= 2
                   /\ unsigned[1] = "0" /\ unsigned[2] = "x"
                THEN SubSeq(unsigned, 3, Len(unsigned)) ELSE unsigned
      n == DigitPrefixLen(body, radix)
  IN IF n = 0 THEN NaN
     ELSE Finite(Signed(neg, DigitsToBits(SubSeq(body, 1, n),
                                          IF radix = 2 THEN 1 ELSE 4)))

\* BigInt(str): 0n for the empty string; 0x or 0b and digits of that radix;
\* or decimal digits after an optional sign; a SyntaxError otherwise
StringToBigInt(str) ==
  LET prefixed == Len(str) >= 2 /\ str[1] = "0" /\ str[2] \in {"x", "b"}
      body == SubSeq(str, 3, Len(str))
      radix == IF prefixed /\ str[2] = "b" THEN 2 ELSE 16
      neg == str # <<>> /\ Head(str) = "-"
      unsigned == IF str # <<>> /\ Head(str) \in {"+", "-"}
                    THEN Tail(str) ELSE str
  IN IF str = <<>> THEN [err |-> "", x |-> Finite(Zero)]
     ELSE IF prefixed
       THEN IF body # <<>> /\ DigitPrefixLen(body, radix) = Len(body)
              THEN [err |-> "",
                    x |-> Finite(Pos(DigitsToBits(body,
                                                  IF radix = 2 THEN 1 ELSE 4)))]
              ELSE [err |-> "SyntaxError", x |-> NaN]
     ELSE IF unsigned # <<>> /\ DigitPrefixLen(unsigned, 10) = Len(unsigned)
       THEN [err |-> "",
             x |-> Finite(Signed(neg, NatToBits(DecimalValue(unsigned))))]
     ELSE [err |-> "SyntaxError", x |-> NaN]

(***************************************************************************)
(* ECMAScript values.                                                      *)
(*   a container value:  [t |-> "number" | "bigint", neg, bits]            *)
(*   a bit argument:     [t |-> "number" | "bigint" | "string" |           *)
(*                        "undefined" | "function", n, s]                  *)
(***************************************************************************)
Number(x) == [t |-> "number", neg |-> x.neg, bits |-> x.bits]
BigInt(x) == [t |-> "bigint", neg |-> x.neg, bits |-> x.bits]
Raw(v) == [neg |-> v.neg, bits |-> v.bits]

\* (n: an index; s: a flag name; text: the characters of a string to
\* parse; obj: the [key, value] entries of an object)
NumArg(n) == [t |-> "number", n |-> n, s |-> "", text |-> <<>>, obj |-> <<>>]
BigArg(n) == [t |-> "bigint", n |-> n, s |-> "", text |-> <<>>, obj |-> <<>>]
StrArg(s) == [t |-> "string", n |-> 0, s |-> s, text |-> <<>>, obj |-> <<>>]
Undefined ==
  [t |-> "undefined", n |-> 0, s |-> "", text |-> <<>>, obj |-> <<>>]
Function == [t |-> "function", n |-> 0, s |-> "", text |-> <<>>, obj |-> <<>>]
BoolArg(b) ==
  [t |-> "boolean", n |-> IF b THEN 1 ELSE 0, s |-> "", text |-> <<>>,
   obj |-> <<>>]
TextArg(chars) ==
  [t |-> "string", n |-> 0, s |-> "", text |-> chars, obj |-> <<>>]
ObjArg(obj) == [t |-> "object", n |-> 0, s |-> "", text |-> <<>>, obj |-> obj]

\* what a call returns to its caller
\* (num: a number or bigint; str: the characters of a string; pairs: the
\* [key, boolean] pairs an iteration yielded; a new instance is returned as
\* the #value it holds, num or NaN)
RetThis ==
  [t |-> "this", b |-> FALSE, num |-> Zero, nan |-> FALSE, str |-> <<>>,
   pairs |-> <<>>]
RetUndefined ==
  [t |-> "undefined", b |-> FALSE, num |-> Zero, nan |-> FALSE, str |-> <<>>,
   pairs |-> <<>>]
RetBool(b) ==
  [t |-> "boolean", b |-> b, num |-> Zero, nan |-> FALSE, str |-> <<>>,
   pairs |-> <<>>]
RetValue(v) ==
  [t |-> v.t, b |-> FALSE, num |-> Raw(v), nan |-> FALSE, str |-> <<>>,
   pairs |-> <<>>]
RetString(s) ==
  [t |-> "string", b |-> FALSE, num |-> Zero, nan |-> FALSE, str |-> s,
   pairs |-> <<>>]
RetPairs(ps) ==
  [t |-> "pairs", b |-> FALSE, num |-> Zero, nan |-> FALSE, str |-> <<>>,
   pairs |-> ps]
RetInstance(i) ==
  [t |-> IF i.t = "number" THEN "instance(number)" ELSE "instance(bigint)",
   b |-> FALSE, num |-> [neg |-> i.neg, bits |-> i.bits], nan |-> i.nan,
   str |-> <<>>, pairs |-> <<>>]

\* the completion of a mask computation: err = "" and the mask m, or the
\* class thrown
Ok(m) == [err |-> "", m |-> m]
Fail(e) == [err |-> e, m |-> Number(Zero)]

\* the completion of a method: err = "", the #value it leaves and what it
\* returns; or the class thrown and the #value at the throw
Return(v, ret) == [err |-> "", v |-> v, ret |-> ret]
Throw(e, v) == [err |-> e, v |-> v, ret |-> RetUndefined]

\* the completion of a static constructor: err = "" and the #value of the
\* new instance (p is what was parsed: a numeral or NaN); or the class
\* thrown
New(kind, p) ==
  [err |-> "",
   new |-> [t |-> kind, nan |-> p.nan, neg |-> p.neg, bits |-> p.bits]]
NewFails(e) ==
  [err |-> e,
   new |-> [t |-> "undefined", nan |-> FALSE, neg |-> FALSE, bits |-> {}]]

(***************************************************************************)
(* The flag registry (`options`): the own enumerable properties of the     *)
(* object given to the constructor, in Object.keys order.                  *)
(***************************************************************************)
Entry(k, v) == [k |-> k, v |-> v]

\* new BitSet({}) / BitSet.Instance()
NoFlags == <<>>
\* new BitSet({a: 1, b: 2})
ABFlags == <<Entry("a", NumArg(1)), Entry("b", NumArg(2))>>
\* enum Flags {a = 0, b = 1, c = 2}: the compiled object also holds the
\* reverse entries, and Object.keys lists the integer-like keys first
EnumFlags ==
  <<Entry("0", StrArg("a")), Entry("1", StrArg("b")), Entry("2", StrArg("c")),
    Entry("a", NumArg(0)), Entry("b", NumArg(1)), Entry("c", NumArg(2))>>

\* static Instance(options): the factory closes over the object it is
\* given, as it is
BitSet_Instance(opts) == opts

\* new BitSet({}), new BitSet({a: 1, b: 2}), BitSet.Instance(Flags)
Registries == {NoFlags, ABFlags, BitSet_Instance(EnumFlags)}

\* {a: 0, b: 1, c: 2, d: 2}: d has the index of c
AliasFlags ==
  <<Entry("a", NumArg(0)), Entry("b", NumArg(1)), Entry("c", NumArg(2)),
    Entry("d", NumArg(2))>>

\* the registries of the factories whose constructors are called
FactoryRegistries ==
  {BitSet_Instance(o) : o \in {NoFlags, ABFlags, EnumFlags, AliasFlags}}

\* Object.keys(options)
ObjectKeys(opts) == [i \in 1..Len(opts) |-> opts[i].k]

\* properties every plain object inherits from Object.prototype
InheritedKeys == {"toString"}

\* options[name]
Lookup(opts, name) ==
  IF \E i \in 1..Len(opts) : opts[i].k = name
    THEN opts[CHOOSE i \in 1..Len(opts) : opts[i].k = name].v
    ELSE IF name \in InheritedKeys THEN Function ELSE Undefined

\* typeof bit === 'number' ? bit : this.options[bit]
BitValue(opts, bit) == IF bit.t = "number" THEN bit ELSE Lookup(opts, bit.s)

(***************************************************************************)
(* class BitSet                                                            *)
(***************************************************************************)
\* BigInt(x) applied to a bit argument; the completion carries the argument
ToBigInt(x) ==
  IF x.t = "number" \/ x.t = "bigint" THEN [err |-> "", m |-> BigArg(x.n)]
  ELSE IF x.t = "undefined" THEN [err |-> "TypeError", m |-> x]
  ELSE [err |-> "SyntaxError", m |-> x]

\* a slip: the guard compares with 32
BitSet_bit_offByOne(n) ==
  IF n.t = "number" /\ n.n > MaxNarrowBit + 1 THEN Fail("Error")
  ELSE IF n.t = "number" THEN Ok(Number(NumShl1(n.n)))
  ELSE IF n.t = "bigint" THEN Ok(BigInt(BigShl1(n.n)))
  ELSE Fail("TypeError")

\* static bit(n): throws for a number above 31; 1 << n for a number,
\* 1n << n otherwise (which throws a TypeError unless n is a bigint)
BitSet_bit(n) ==
  IF n.t = "number" /\ n.n > MaxNarrowBit THEN Fail("Error")
  ELSE IF n.t = "number" THEN Ok(Number(NumShl1(n.n)))
  ELSE IF n.t = "bigint" THEN Ok(BigInt(BigShl1(n.n)))
  ELSE Fail("TypeError")

\* the mask every method computes: BitSet.bit(bitValue) for a number value,
\* BitSet.bit(BigInt(bitValue)) for a bigint value
BitSet_mask(opts, v, bit) ==
  LET bitValue == BitValue(opts, bit)
  IN IF v.t = "number" THEN BitSet_bit(bitValue)
     ELSE LET b == ToBigInt(bitValue)
          IN IF b.err # "" THEN Fail(b.err) ELSE BitSet_bit(b.m)

\* the binary operators, on the kind of the left operand
Or(v, m) == IF v.t = "number" THEN Number(NumOr(v, m)) ELSE BigInt(BitOr(v, m))
And(v, m) == IF v.t = "number" THEN Number(NumAnd(v, m)) ELSE BigInt(BitAnd(v, m))
Xor(v, m) == IF v.t = "number" THEN Number(NumXor(v, m)) ELSE BigInt(BitXor(v, m))
Not(m) == IF m.t = "number" THEN Number(NumNot(m)) ELSE BigInt(BitNot(m))
\* x !== 0, Boolean(x)
NonZero(x) == x.neg \/ x.bits # {}

\* a slip: the getter returns #value as it is (no >>> 0)
BitSet_value_raw(v) == v

\* get value(): #value >>> 0 for a number, #value for a bigint
BitSet_value(v) == IF v.t = "number" THEN Number(NumUShr0(v)) ELSE v

\* a slip: delete clears with the mask instead of its complement
BitSet_delete_noComplement(opts, v, bit) ==
  LET m == BitSet_mask(opts, v, bit)
  IN IF m.err # "" THEN Throw(m.err, v) ELSE Return(And(v, m.m), RetThis)

\* a slip: set flips the bit (^= in place of |=)
BitSet_set_asToggle(opts, v, bit) ==
  LET m == BitSet_mask(opts, v, bit)
  IN IF m.err # "" THEN Throw(m.err, v) ELSE Return(Xor(v, m.m), RetThis)

\* set(bit): #value |= mask
BitSet_set(opts, v, bit) ==
  LET m == BitSet_mask(opts, v, bit)
  IN IF m.err # "" THEN Throw(m.err, v) ELSE Return(Or(v, m.m), RetThis)

\* delete(bit): #value &= ~mask
BitSet_delete(opts, v, bit) ==
  LET m == BitSet_mask(opts, v, bit)
  IN IF m.err # "" THEN Throw(m.err, v) ELSE Return(And(v, Not(m.m)), RetThis)

\* a slip: toggle sets the bit (|= in place of ^=)
BitSet_toggle_asSet(opts, v, bit) ==
  LET m == BitSet_mask(opts, v, bit)
  IN IF m.err # "" THEN Throw(m.err, v) ELSE Return(Or(v, m.m), RetThis)

\* toggle(bit): #value ^= mask
BitSet_toggle(opts, v, bit) ==
  LET m == BitSet_mask(opts, v, bit)
  IN IF m.err # "" THEN Throw(m.err, v) ELSE Return(Xor(v, m.m), RetThis)

\* get(bit): #value & mask
BitSet_get(opts, v, bit) ==
  LET m == BitSet_mask(opts, v, bit)
  IN IF m.err # "" THEN Throw(m.err, v) ELSE Return(v, RetValue(And(v, m.m)))

\* has(bit): Boolean(#value & mask)
BitSet_has(opts, v, bit) ==
  LET m == BitSet_mask(opts, v, bit)
  IN IF m.err # "" THEN Throw(m.err, v)
     ELSE Return(v, RetBool(NonZero(And(v, m.m))))

\* write(...bits): for (const bit of bits) this.set(bit); a throw leaves
\* the bits set so far
RECURSIVE BitSet_write(_, _, _)
BitSet_write(opts, v, bits) ==
  IF bits = <<>> THEN Return(v, RetThis)
  ELSE LET r == BitSet_set(opts, v, Head(bits))
       IN IF r.err # "" THEN r ELSE BitSet_write(opts, r.v, Tail(bits))

\* clear(): key = Object.keys(options)[0]; if (key) #value = 0 or 0n by the
\* type of options[key]
BitSet_clear(opts, v) ==
  IF Len(opts) > 0 /\ ObjectKeys(opts)[1] # ""
    THEN IF Lookup(opts, ObjectKeys(opts)[1]).t = "number"
           THEN Return(Number(Zero), RetThis)
           ELSE Return(BigInt(Zero), RetThis)
    ELSE Return(v, RetThis)

\* fromHex: (value) => new BitSet(options, parseInt(value, 16))
BitSet_fromHex(str) == New("number", ParseInt(str, 16))

\* fromBin: (value) => new BitSet(options, parseInt(value, 2))
BitSet_fromBin(str) == New("number", ParseInt(str, 2))

\* fromHexBigInt: (value) => new BitSet(options, BigInt(value))
BitSet_fromHexBigInt(str) ==
  LET r == StringToBigInt(str)
  IN IF r.err # "" THEN NewFails(r.err) ELSE New("bigint", r.x)

\* fromBinBigInt: (value) => new BitSet(options, BigInt(value))
BitSet_fromBinBigInt(str) ==
  LET r == StringToBigInt(str)
  IN IF r.err # "" THEN NewFails(r.err) ELSE New("bigint", r.x)

\* Boolean(x) of the values an object given to from / fromBigInt holds
Truthy(x) == x \notin {"0", "''", "NaN", "null", "undefined", "false"}

\* obj[key] is there and truthy
TruthyAt(obj, key) ==
  \E i \in 1..Len(obj) : obj[i].k = key /\ Truthy(obj[i].v)

\* from / fromBigInt: from the zero `zero` of the kind, every key of the
\* registry whose value in obj is truthy is set
RECURSIVE BitSet_from_loop(_, _, _, _)
BitSet_from_loop(opts, v, keys, obj) ==
  IF keys = <<>> THEN New(v.t, Finite(v))
  ELSE IF TruthyAt(obj, Head(keys))
    THEN LET r == BitSet_set(opts, v, StrArg(Head(keys)))
         IN IF r.err # "" THEN NewFails(r.err)
            ELSE BitSet_from_loop(opts, r.v, Tail(keys), obj)
  ELSE BitSet_from_loop(opts, v, Tail(keys), obj)

BitSet_from(opts, obj) ==
  BitSet_from_loop(opts, Number(Zero), ObjectKeys(opts), obj)

BitSet_fromBigInt(opts, obj) ==
  BitSet_from_loop(opts, BigInt(Zero), ObjectKeys(opts), obj)

\* the loops of *entries: each yields [key, this.has(key)]; a throw of has
\* ends the iteration, after the pairs already yielded
RECURSIVE BitSet_entries_loop(_, _, _, _)
BitSet_entries_loop(opts, v, keys, acc) ==
  IF keys = <<>> THEN Return(v, RetPairs(acc))
  ELSE LET r == BitSet_has(opts, v, Head(keys))
       IN IF r.err # "" THEN [err |-> r.err, v |-> v, ret |-> RetPairs(acc)]
          ELSE BitSet_entries_loop(opts, v, Tail(keys),
                                   Append(acc, [k |-> Head(keys), b |-> r.ret.b]))

\* *entries(bits): with bits, i from 0 while i < #value.toString(2).length;
\* without, the flags of Object.keys(options)
BitSet_entries(opts, v, bits) ==
  IF bits.t = "boolean" /\ bits.n = 1
    THEN BitSet_entries_loop(opts, v,
           [i \in 1..Len(ToStringPow2(v, 1)) |-> NumArg(i - 1)], <<>>)
    ELSE BitSet_entries_loop(opts, v,
           [i \in 1..Len(opts) |-> StrArg(ObjectKeys(opts)[i])], <<>>)

\* *[Symbol.iterator](): yield* this.entries()
BitSet_iterator(opts, v) == BitSet_entries(opts, v, Undefined)

\* toJSON(): #value for a number, #value.toString() for a bigint
BitSet_toJSON(v) ==
  IF v.t = "number" THEN Return(v, RetValue(v))
  ELSE Return(v, RetString(ToDecimalString(v)))

(***************************************************************************)
(* class Bits                                                              *)
(***************************************************************************)
\* static bit(n): 1 << n
Bits_bit(n) == Number(NumShl1(n.n))

\* get value(): #value
Bits_value(v) == v

\* has(bit): (#value & Bits.bit(bit)) !== 0
Bits_has(v, bit) == Return(v, RetBool(NonZero(And(v, Bits_bit(bit)))))

\* set(bit): #value |= Bits.bit(bit)
Bits_set(v, bit) == Return(Or(v, Bits_bit(bit)), RetThis)

\* bits.reduce((acc, bit) => acc | Bits.bit(bit), 0)
RECURSIVE Bits_reduce(_, _)
Bits_reduce(acc, bits) ==
  IF bits = <<>> THEN acc
  ELSE Bits_reduce(Or(acc, Bits_bit(Head(bits))), Tail(bits))

\* a slip: write keeps the mask of the first argument only
Bits_write_firstOnly(v, bits) ==
  Return(Or(v, Bits_reduce(Number(Zero),
                           IF bits = <<>> THEN <<>> ELSE <<Head(bits)>>)),
         RetThis)

\* write(...bits): #value |= the reduced mask
Bits_write(v, bits) == Return(Or(v, Bits_reduce(Number(Zero), bits)), RetThis)

\* clear(bit): #value &= ~Bits.bit(bit)
Bits_clear(v, bit) == Return(And(v, Not(Bits_bit(bit))), RetThis)

\* toggle(bit): #value ^= Bits.bit(bit)
Bits_toggle(v, bit) == Return(Xor(v, Bits_bit(bit)), RetThis)

\* static fromBin(value): new Bits(parseInt(value, 2))
Bits_fromBin(str) == New("number", ParseInt(str, 2))

\* static fromHex(value): new Bits(parseInt(value, 16))
Bits_fromHex(str) == New("number", ParseInt(str, 16))

\* toBin(): #value.toString(2)
Bits_toBin(v) == Return(v, RetString(ToStringPow2(v, 1)))

\* toHex(): #value.toString(16)
Bits_toHex(v) == Return(v, RetString(ToStringPow2(v, 4)))

\* toJSON(): #value
Bits_toJSON(v) == Return(v, RetValue(v))

(***************************************************************************)
(* class BitsN                                                             *)
(***************************************************************************)
\* static bit(n): 1n << BigInt(n)
BitsN_bit(n) == BigInt(BigShl1(n.n))

\* get value(): #value
BitsN_value(v) == v

\* has(bit): (#value & BitsN.bit(bit)) !== 0n
BitsN_has(v, bit) == Return(v, RetBool(NonZero(And(v, BitsN_bit(bit)))))

\* set(bit): #value |= BitsN.bit(bit)
BitsN_set(v, bit) == Return(Or(v, BitsN_bit(bit)), RetThis)

\* bits.reduce((acc, bit) => acc | BitsN.bit(bit), 0n)
RECURSIVE BitsN_reduce(_, _)
BitsN_reduce(acc, bits) ==
  IF bits = <<>> THEN acc
  ELSE BitsN_reduce(Or(acc, BitsN_bit(Head(bits))), Tail(bits))

\* write(...bits): #value |= the reduced mask
BitsN_write(v, bits) == Return(Or(v, BitsN_reduce(BigInt(Zero), bits)), RetThis)

\* clear(bit): #value &= ~BitsN.bit(bit)
BitsN_clear(v, bit) == Return(And(v, Not(BitsN_bit(bit))), RetThis)

\* toggle(bit): #value ^= BitsN.bit(bit)
BitsN_toggle(v, bit) == Return(Xor(v, BitsN_bit(bit)), RetThis)

\* static fromBin(value): new BitsN(BigInt(`0b` + value))
BitsN_fromBin(str) ==
  LET r == StringToBigInt(<<"0", "b">> \o str)
  IN IF r.err # "" THEN NewFails(r.err) ELSE New("bigint", r.x)

\* static fromHex(value): new BitsN(BigInt(`0x` + value))
BitsN_fromHex(str) ==
  LET r == StringToBigInt(<<"0", "x">> \o str)
  IN IF r.err # "" THEN NewFails(r.err) ELSE New("bigint", r.x)

\* toBin(): #value.toString(2)
BitsN_toBin(v) == Return(v, RetString(ToStringPow2(v, 1)))

\* toHex(): #value.toString(16)
BitsN_toHex(v) == Return(v, RetString(ToStringPow2(v, 4)))

\* toJSON(): #value.toString()
BitsN_toJSON(v) == Return(v, RetString(ToDecimalString(v)))

(***************************************************************************)
(* The callers: which instance is alive and what it is called with.        *)
(***************************************************************************)
\* the raw bit indices passed: 0, 1, the top narrow bit, and those beyond it
Indices == {0, 1, 31} \cup (32..MaxIndex)

\* flag names passed: registered ones, one in no registry, an inherited one
Names == {"a", "b", "zz", "toString"}

BitSetArgs == {NumArg(i) : i \in Indices} \cup {StrArg(s) : s \in Names}
\* ("a" is registered in two of the registries and unknown in the empty one)
BitSetWriteArgs == {NumArg(0), NumArg(31), NumArg(MaxIndex), StrArg("a")}
BitsArgs == {NumArg(i) : i \in Indices}
BitsWriteArgs == {NumArg(0), NumArg(1), NumArg(31), NumArg(MaxIndex)}
BitsNArgs == {BigArg(i) : i \in Indices}
BitsNWriteArgs == {BigArg(0), BigArg(1), BigArg(MaxIndex)}

\* strings given to the static constructors of Bits and BitsN, besides the
\* instance's own toBin() / toHex(): '10011010010', '' and '4d2', 'ffffffff'
BinTexts == {<<"1", "0", "0", "1", "1", "0", "1", "0", "0", "1", "0">>, <<>>}
HexTexts == {<<"4", "d", "2">>, <<"f", "f", "f", "f", "f", "f", "f", "f">>}

\* the characters of the strings given to the factory: binary digits, a
\* decimal digit, a hex digit, and the letters of the prefixes 0x and 0b
\* (b is a hex digit too, x is no digit)
Alphabet == {"0", "1", "2", "f", "x", "b"}
Texts == UNION {[1..k -> Alphabet] : k \in 0..MaxTextLen}

\* the objects given to from / fromBigInt: at most MaxObjKeys of the keys
\* a, c, d (c and d share an index in one registry) and zz (in no
\* registry), each with one of the values
\* true, false, 1, 0, '', '0', NaN, null, undefined
ObjKeyNames == <<"a", "c", "d", "zz">>
ObjValues ==
  {"true", "false", "1", "0", "''", "'0'", "NaN", "null", "undefined"}
RECURSIVE Ascending(_)
Ascending(S) ==
  IF S = {} THEN <<>>
  ELSE LET m == CHOOSE i \in S : \A j \in S : i <= j
       IN <<m>> \o Ascending(S \ {m})
Objects ==
  UNION {{[i \in 1..Cardinality(K) |->
             Entry(ObjKeyNames[Ascending(K)[i]], f[Ascending(K)[i]])] :
            f \in [K -> ObjValues]} :
         K \in {S \in SUBSET (1..Len(ObjKeyNames)) :
                  Cardinality(S) <= MaxObjKeys}}

\* what a pair of BitSets over one registry is called with: the positions
\* 0, 1 and 31, and the flag names of the registry
PairArgs(opts) ==
  {NumArg(0), NumArg(1), NumArg(31)}
    \cup {StrArg(opts[i].k) : i \in {j \in 1..Len(opts) : opts[j].v.t = "number"}}
PairWriteArgs(opts) == PairArgs(opts) \ {NumArg(1), StrArg("b"), StrArg("c")}

\* the argument lists of write(...)
ArgLists(S) == UNION {[1..k -> S] : k \in 0..MaxWriteLen}

\* new BitSet(options) and now(): value ?? 0; fromHex('ffffffff');
\* now(0n); fromBinBigInt('0b' + 32 ones)
BitSetInitialValues ==
  {Number(Zero), Number(Pos(0..31)), BigInt(Zero), BigInt(Pos(0..31))}
\* new Bits(): value = 0; Bits.fromHex('ffffffff')
BitsInitialValues == {Number(Zero), Number(Pos(0..31))}
\* new BitsN(): BigInt(0n); new BitsN(1234)
BitsNInitialValues == {BigInt(Zero), BigInt(Pos({1, 4, 6, 7, 10}))}

\* the record of the last call, once the caller has moved on
Idle(v) ==
  [op |-> "idle", args |-> <<>>, pre |-> v, err |-> "", ret |-> RetUndefined,
   twinErr |-> ""]

\* what is at hand: an instance of one of the classes, or the factory
\* BitSet.Instance(options) with the instance its now() returned
Init ==
  /\ cls \in {"BitSet", "Bits", "BitsN", "BitSet.Instance", "BitSet pair"}
  /\ options \in (IF cls \in {"BitSet", "BitSet pair"} THEN Registries
                  ELSE IF cls = "BitSet.Instance" THEN FactoryRegistries
                  ELSE {NoFlags})
  /\ value \in (IF cls = "BitSet" THEN BitSetInitialValues
                ELSE IF cls = "Bits" THEN BitsInitialValues
                ELSE IF cls = "BitsN" THEN BitsNInitialValues
                ELSE {Number(Zero)})
  /\ twin = BigInt(Zero)
  /\ last = Idle(value)

\* a call `op(args)` that completed as r: the instance holds r.v, and the
\* call, the #value before it and its outcome are on record for the caller
Call(op, args, r) ==
  /\ last.op = "idle"
  /\ value' = r.v
  /\ last' = [op |-> op, args |-> args, pre |-> value, err |-> r.err,
              ret |-> r.ret, twinErr |-> ""]
  /\ UNCHANGED <<cls, options, twin>>

\* a call of a static constructor that completed as r: the instance at hand
\* is not touched, the new instance is what the caller gets
Static(op, args, r) ==
  Call(op, args,
       IF r.err # "" THEN Throw(r.err, value)
       ELSE Return(value, RetInstance(r.new)))

Call_BitSet_value ==
  /\ cls = "BitSet"
  /\ Call("value", <<>>, Return(value, RetValue(BitSet_value(value))))

Call_BitSet_set ==
  /\ cls = "BitSet"
  /\ \E bit \in BitSetArgs : Call("set", <<bit>>, BitSet_set(options, value, bit))

Call_BitSet_delete ==
  /\ cls = "BitSet"
  /\ \E bit \in BitSetArgs :
       Call("delete", <<bit>>, BitSet_delete(options, value, bit))

Call_BitSet_toggle ==
  /\ cls = "BitSet"
  /\ \E bit \in BitSetArgs :
       Call("toggle", <<bit>>, BitSet_toggle(options, value, bit))

Call_BitSet_get ==
  /\ cls = "BitSet"
  /\ \E bit \in BitSetArgs : Call("get", <<bit>>, BitSet_get(options, value, bit))

Call_BitSet_has ==
  /\ cls = "BitSet"
  /\ \E bit \in BitSetArgs : Call("has", <<bit>>, BitSet_has(options, value, bit))

Call_BitSet_write ==
  /\ cls = "BitSet"
  /\ \E bits \in ArgLists(BitSetWriteArgs) :
       Call("write", bits, BitSet_write(options, value, bits))

Call_BitSet_clear ==
  /\ cls = "BitSet"
  /\ Call("clear", <<>>, BitSet_clear(options, value))

Call_BitSet_toJSON ==
  /\ cls = "BitSet"
  /\ Call("toJSON", <<>>, BitSet_toJSON(value))

\* entries(), entries(false), entries(true), iterated to the end
Call_BitSet_entries ==
  /\ cls = "BitSet"
  /\ \E args \in {<<>>, <<BoolArg(FALSE)>>, <<BoolArg(TRUE)>>} :
       Call("entries", args,
            BitSet_entries(options, value,
                           IF args = <<>> THEN Undefined ELSE args[1]))

\* for (const [flag, on] of bitSet), iterated to the end
Call_BitSet_iterator ==
  /\ cls = "BitSet"
  /\ Call("iterator", <<>>, BitSet_iterator(options, value))

Call_BitSet_fromHex ==
  /\ cls = "BitSet.Instance"
  /\ \E str \in Texts : Static("fromHex", <<TextArg(str)>>, BitSet_fromHex(str))

Call_BitSet_fromBin ==
  /\ cls = "BitSet.Instance"
  /\ \E str \in Texts : Static("fromBin", <<TextArg(str)>>, BitSet_fromBin(str))

Call_BitSet_fromHexBigInt ==
  /\ cls = "BitSet.Instance"
  /\ \E str \in Texts :
       Static("fromHexBigInt", <<TextArg(str)>>, BitSet_fromHexBigInt(str))

Call_BitSet_fromBinBigInt ==
  /\ cls = "BitSet.Instance"
  /\ \E str \in Texts :
       Static("fromBinBigInt", <<TextArg(str)>>, BitSet_fromBinBigInt(str))

Call_BitSet_from ==
  /\ cls = "BitSet.Instance"
  /\ \E obj \in Objects :
       Static("from", <<ObjArg(obj)>>, BitSet_from(options, obj))

Call_BitSet_fromBigInt ==
  /\ cls = "BitSet.Instance"
  /\ \E obj \in Objects :
       Static("fromBigInt", <<ObjArg(obj)>>, BitSet_fromBigInt(options, obj))

\* the same call `op(args)` made on both instances of a pair: x = now()
\* completed as rn, y = now(0n) as rw
Both(op, args, rn, rw) ==
  /\ cls = "BitSet pair"
  /\ last.op = "idle"
  /\ value' = rn.v
  /\ twin' = rw.v
  /\ last' = [op |-> op, args |-> args, pre |-> value, err |-> rn.err,
              ret |-> rn.ret, twinErr |-> rw.err]
  /\ UNCHANGED <<cls, options>>

Call_Pair_set ==
  \E bit \in PairArgs(options) :
    Both("x.set, y.set", <<bit>>,
         BitSet_set(options, value, bit), BitSet_set(options, twin, bit))

Call_Pair_delete ==
  \E bit \in PairArgs(options) :
    Both("x.delete, y.delete", <<bit>>,
         BitSet_delete(options, value, bit), BitSet_delete(options, twin, bit))

Call_Pair_toggle ==
  \E bit \in PairArgs(options) :
    Both("x.toggle, y.toggle", <<bit>>,
         BitSet_toggle(options, value, bit), BitSet_toggle(options, twin, bit))

Call_Pair_write ==
  \E bits \in ArgLists(PairWriteArgs(options)) :
    Both("x.write, y.write", bits,
         BitSet_write(options, value, bits), BitSet_write(options, twin, bits))

Call_Bits_value ==
  /\ cls = "Bits"
  /\ Call("value", <<>>, Return(value, RetValue(Bits_value(value))))

Call_Bits_has ==
  /\ cls = "Bits"
  /\ \E bit \in BitsArgs : Call("has", <<bit>>, Bits_has(value, bit))

Call_Bits_set ==
  /\ cls = "Bits"
  /\ \E bit \in BitsArgs : Call("set", <<bit>>, Bits_set(value, bit))

Call_Bits_write ==
  /\ cls = "Bits"
  /\ \E bits \in ArgLists(BitsWriteArgs) : Call("write", bits, Bits_write(value, bits))

Call_Bits_clear ==
  /\ cls = "Bits"
  /\ \E bit \in BitsArgs : Call("clear", <<bit>>, Bits_clear(value, bit))

Call_Bits_toggle ==
  /\ cls = "Bits"
  /\ \E bit \in BitsArgs : Call("toggle", <<bit>>, Bits_toggle(value, bit))

Call_Bits_toBin ==
  /\ cls = "Bits"
  /\ Call("toBin", <<>>, Bits_toBin(value))

Call_Bits_toHex ==
  /\ cls = "Bits"
  /\ Call("toHex", <<>>, Bits_toHex(value))

\* Bits.fromBin(x.toBin()), Bits.fromBin('101'), ...
Call_Bits_fromBin ==
  /\ cls = "Bits"
  /\ \E str \in {Bits_toBin(value).ret.str} \cup BinTexts :
       Static("fromBin", <<TextArg(str)>>, Bits_fromBin(str))

Call_Bits_fromHex ==
  /\ cls = "Bits"
  /\ \E str \in {Bits_toHex(value).ret.str} \cup HexTexts :
       Static("fromHex", <<TextArg(str)>>, Bits_fromHex(str))

Call_Bits_toJSON ==
  /\ cls = "Bits"
  /\ Call("toJSON", <<>>, Bits_toJSON(value))

Call_BitsN_value ==
  /\ cls = "BitsN"
  /\ Call("value", <<>>, Return(value, RetValue(BitsN_value(value))))

Call_BitsN_has ==
  /\ cls = "BitsN"
  /\ \E bit \in BitsNArgs : Call("has", <<bit>>, BitsN_has(value, bit))

Call_BitsN_set ==
  /\ cls = "BitsN"
  /\ \E bit \in BitsNArgs : Call("set", <<bit>>, BitsN_set(value, bit))

Call_BitsN_write ==
  /\ cls = "BitsN"
  /\ \E bits \in ArgLists(BitsNWriteArgs) :
       Call("write", bits, BitsN_write(value, bits))

Call_BitsN_clear ==
  /\ cls = "BitsN"
  /\ \E bit \in BitsNArgs : Call("clear", <<bit>>, BitsN_clear(value, bit))

Call_BitsN_toggle ==
  /\ cls = "BitsN"
  /\ \E bit \in BitsNArgs : Call("toggle", <<bit>>, BitsN_toggle(value, bit))

Call_BitsN_toBin ==
  /\ cls = "BitsN"
  /\ Call("toBin", <<>>, BitsN_toBin(value))

Call_BitsN_toHex ==
  /\ cls = "BitsN"
  /\ Call("toHex", <<>>, BitsN_toHex(value))

\* BitsN.fromBin(x.toBin()), BitsN.fromBin('101'), ...
Call_BitsN_fromBin ==
  /\ cls = "BitsN"
  /\ \E str \in {BitsN_toBin(value).ret.str} \cup BinTexts :
       Static("fromBin", <<TextArg(str)>>, BitsN_fromBin(str))

Call_BitsN_fromHex ==
  /\ cls = "BitsN"
  /\ \E str \in {BitsN_toHex(value).ret.str} \cup HexTexts :
       Static("fromHex", <<TextArg(str)>>, BitsN_fromHex(str))

Call_BitsN_toJSON ==
  /\ cls = "BitsN"
  /\ Call("toJSON", <<>>, BitsN_toJSON(value))

\* the caller has looked at the outcome and goes on to its next statement
NextStatement ==
  /\ last.op # "idle"
  /\ last' = Idle(value)
  /\ UNCHANGED <<cls, options, value, twin>>

Next ==
  \/ NextStatement
  \/ Call_BitSet_value \/ Call_BitSet_set \/ Call_BitSet_delete
  \/ Call_BitSet_toggle \/ Call_BitSet_get \/ Call_BitSet_has
  \/ Call_BitSet_write \/ Call_BitSet_clear \/ Call_BitSet_toJSON
  \/ Call_BitSet_entries \/ Call_BitSet_iterator
  \/ Call_BitSet_fromHex \/ Call_BitSet_fromBin
  \/ Call_BitSet_fromHexBigInt \/ Call_BitSet_fromBinBigInt
  \/ Call_BitSet_from \/ Call_BitSet_fromBigInt
  \/ Call_Pair_set \/ Call_Pair_delete \/ Call_Pair_toggle \/ Call_Pair_write
  \/ Call_Bits_value \/ Call_Bits_has \/ Call_Bits_set \/ Call_Bits_write
  \/ Call_Bits_clear \/ Call_Bits_toggle \/ Call_Bits_toJSON
  \/ Call_Bits_toBin \/ Call_Bits_toHex \/ Call_Bits_fromBin
  \/ Call_Bits_fromHex
  \/ Call_BitsN_value \/ Call_BitsN_has \/ Call_BitsN_set \/ Call_BitsN_write
  \/ Call_BitsN_clear \/ Call_BitsN_toggle \/ Call_BitsN_toJSON
  \/ Call_BitsN_toBin \/ Call_BitsN_toHex \/ Call_BitsN_fromBin
  \/ Call_BitsN_fromHex

Spec == Init /\ [][Next]_vars

(***************************************************************************)
(* Vocabulary of the properties.                                           *)
(***************************************************************************)
\* an instance of any class is asked has / set / clear-one-bit through the
\* method of its class
HasOf(v, bit) ==
  IF cls = "BitSet" THEN BitSet_has(options, v, bit)
  ELSE IF cls = "Bits" THEN Bits_has(v, bit) ELSE BitsN_has(v, bit)
SetOf(v, bit) ==
  IF cls = "BitSet" THEN BitSet_set(options, v, bit)
  ELSE IF cls = "Bits" THEN Bits_set(v, bit) ELSE BitsN_set(v, bit)
ClearBitOf(v, bit) ==
  IF cls = "BitSet" THEN BitSet_delete(options, v, bit)
  ELSE IF cls = "Bits" THEN Bits_clear(v, bit) ELSE BitsN_clear(v, bit)
ValueOf(v) ==
  IF cls = "BitSet" THEN BitSet_value(v)
  ELSE IF cls = "Bits" THEN Bits_value(v) ELSE BitsN_value(v)

ToggleOf(v, bit) ==
  IF cls = "BitSet" THEN BitSet_toggle(options, v, bit)
  ELSE IF cls = "Bits" THEN Bits_toggle(v, bit) ELSE BitsN_toggle(v, bit)

\* the index of kind v.t for position n, as each class is given it
IndexArg(v, n) == IF v.t = "number" THEN NumArg(n) ELSE BigArg(n)

\* the positions looked at: all 32 of a number value; those of a bigint
\* value up to one past the highest index passed
Positions(v) == IF v.t = "number" THEN 0..31 ELSE 0..(MaxIndex + 1)

ToBinOf(v) == IF cls = "Bits" THEN Bits_toBin(v) ELSE BitsN_toBin(v)
ToHexOf(v) == IF cls = "Bits" THEN Bits_toHex(v) ELSE BitsN_toHex(v)

\* is the string a non-empty run of digits of the radix
AllDigits(str, radix) ==
  str # <<>> /\ \A i \in 1..Len(str) : DigitValue(str[i]) < radix

\* the strings each string constructor is documented to take: digits of
\* the base, after the prefix 0b / 0x for the bigint constructors and with
\* no prefix for the number constructors
WellFormed(op, str) ==
  IF op = "fromBin" THEN AllDigits(str, 2)
  ELSE IF op = "fromHex" THEN AllDigits(str, 16)
  ELSE /\ Len(str) >= 2 /\ str[1] = "0"
       /\ str[2] = (IF op = "fromBinBigInt" THEN "b" ELSE "x")
       /\ AllDigits(SubSeq(str, 3, Len(str)),
                    IF op = "fromBinBigInt" THEN 2 ELSE 16)

\* the #value of the instance a static constructor returned
Created(ret) ==
  [t |-> IF ret.t = "instance(number)" THEN "number" ELSE "bigint",
   neg |-> ret.num.neg, bits |-> ret.num.bits]

\* the bit positions a value of kind v.t can address
ValidPosition(v, n) == n >= 0 /\ (v.t = "number" => n <= 31)

\* a raw index
IsIndex(bit) == bit.t = "number" \/ bit.t = "bigint"

\* the keys of the registry
Registered(name) == \E i \in 1..Len(options) : options[i].k = name

\* the name -> index entries of a registry, in their order
NameToIndex(opts) == SelectSeq(opts, LAMBDA e : e.v.t = "number")

\* a valid argument: a raw index in range, or a registered name whose
\* registry entry is an index in range
ValidArg(v, bit) ==
  \/ IsIndex(bit) /\ ValidPosition(v, bit.n)
  \/ /\ bit.t = "string"
     /\ Registered(bit.s)
     /\ Lookup(options, bit.s).t = "number"
     /\ ValidPosition(v, Lookup(options, bit.s).n)

\* the single-bit clear of each class
IsClearBit == (cls = "BitSet" /\ last.op = "delete") \/ (cls # "BitSet" /\ last.op = "clear")

\* set(bits[i]) for the positions i of `rest`, taken in every order, from
\* v and by the class's own set, always ends with the value `result`
RECURSIVE EveryOrderOfSetGives(_, _, _, _)
EveryOrderOfSetGives(v, bits, rest, result) ==
  IF rest = {} THEN v = result
  ELSE \A i \in rest :
         LET r == SetOf(v, bits[i])
         IN r.err = "" /\ EveryOrderOfSetGives(r.v, bits, rest \ {i}, result)

(***************************************************************************)
(* C1.  Immediately after set(n) with a valid bit position n (0..31 on a   *)
(* number value, any n >= 0 on a bigint value) the call has returned and   *)
(* has(n) is true; after the single-bit clear that follows (BitSet.delete, *)
(* Bits.clear, BitsN.clear) has(n) is false.  For BitSet, Bits and BitsN.  *)
(***************************************************************************)
C1_SetHasClear ==
  /\ (last.op = "set" /\ IsIndex(last.args[1])
        /\ ValidPosition(last.pre, last.args[1].n))
       => /\ last.err = ""
          /\ HasOf(value, last.args[1]).ret = RetBool(TRUE)
          /\ ClearBitOf(value, last.args[1]).err = ""
          /\ HasOf(ClearBitOf(value, last.args[1]).v, last.args[1]).ret
               = RetBool(FALSE)
  /\ (IsClearBit /\ IsIndex(last.args[1])
        /\ ValidPosition(last.pre, last.args[1].n))
       => /\ last.err = ""
          /\ HasOf(value, last.args[1]).ret = RetBool(FALSE)

\* set(31) has just set the top bit of a number-backed BitSet
C1_Witness ==
  /\ cls = "BitSet" /\ last.op = "set" /\ last.args = <<NumArg(31)>>
  /\ last.pre = Number(Zero) /\ last.err = ""
  /\ HasOf(value, NumArg(31)).ret = RetBool(TRUE)

(***************************************************************************)
(* C2.  After the no-argument BitSet.clear(), whatever the registry (the   *)
(* empty one included) and the value before, the value is zero and has(x)  *)
(* is true for no flag name and no bit index.                              *)
(***************************************************************************)
C2_ClearResetsValue ==
  (cls = "BitSet" /\ last.op = "clear")
    => /\ Raw(BitSet_value(value)) = Zero
       /\ \A bit \in BitSetArgs :
            BitSet_has(options, value, bit).ret # RetBool(TRUE)

(***************************************************************************)
(* C3.  The kind of a BitSet is fixed: no call (set, delete, toggle,       *)
(* write, clear, ...) turns a bigint value into a number or a number into  *)
(* a bigint.                                                               *)
(***************************************************************************)
C3_KindIsFixed ==
  (cls = "BitSet" /\ last.op # "idle") => value.t = last.pre.t

(***************************************************************************)
(* C4.  For a number-backed BitSet in any reachable state, the `value`     *)
(* getter returns a non-negative integer in [0, 2^32 - 1] that is the sum  *)
(* of 2^n over the positions n in 0..31 for which has(n) is true.          *)
(***************************************************************************)
C4_ValueIsUnsigned ==
  (cls = "BitSet" /\ value.t = "number")
    => LET got == BitSet_value(value)
       IN /\ got.t = "number"
          /\ ~got.neg
          /\ got.bits \subseteq 0..31
          /\ got.bits =
               {n \in 0..31 :
                  BitSet_has(options, value, NumArg(n)).ret = RetBool(TRUE)}
          /\ (last.op = "value" /\ last.err = "") => last.ret = RetValue(got)

\* bit 31 was set, so that #value is negative, and the getter was called
C4_Witness ==
  /\ cls = "BitSet" /\ value.t = "number" /\ value.neg
  /\ last.op = "value" /\ 31 \in last.ret.num.bits

(***************************************************************************)
(* C5.  toJSON() of a number-backed BitSet returns the non-negative number *)
(* that `value` returns; toJSON() of a bigint-backed BitSet returns the    *)
(* decimal string of `value`.                                              *)
(***************************************************************************)
C5_ToJSONIsValue ==
  (cls = "BitSet" /\ last.op = "toJSON")
    => IF last.pre.t = "number"
         THEN /\ last.ret = RetValue(BitSet_value(last.pre))
              /\ ~last.ret.num.neg
         ELSE last.ret = RetString(ToDecimalString(BitSet_value(last.pre)))

(***************************************************************************)
(* C6.  On a number-backed BitSet, BitSet.bit(n) throws for every number   *)
(* n > 31, so set, delete, toggle, has and get with a raw index n > 31     *)
(* throw instead of returning.                                             *)
(***************************************************************************)
C6_NarrowRange ==
  /\ \A n \in Indices : n > 31 => BitSet_bit(NumArg(n)).err = "Error"
  /\ (cls = "BitSet" /\ last.op \in {"set", "delete", "toggle", "has", "get"}
        /\ last.pre.t = "number" /\ last.args[1].t = "number"
        /\ last.args[1].n > 31)
       => last.err = "Error" /\ last.ret = RetUndefined

\* has(32) on a number-backed BitSet threw
C6_Witness ==
  /\ cls = "BitSet" /\ last.op = "has" /\ last.pre.t = "number"
  /\ last.args = <<NumArg(32)>> /\ last.err = "Error"

(***************************************************************************)
(* C7.  set, delete, toggle, write, has and get of a BitSet, given a flag  *)
(* name that is not in the registry, throw, and the value after the failed *)
(* call is the value before it.                                            *)
(***************************************************************************)
C7_UnknownFlagFails ==
  (cls = "BitSet"
     /\ last.op \in {"set", "delete", "toggle", "write", "has", "get"}
     /\ \E i \in 1..Len(last.args) :
          last.args[i].t = "string" /\ ~Registered(last.args[i].s))
    => last.err # "" /\ value = last.pre

(***************************************************************************)
(* C8.  A BitSet call that throws leaves the value as it was before the    *)
(* call; a write(x1, ..., xk) with an invalid xi sets none of x1..x(i-1).  *)
(***************************************************************************)
C8_FailedCallIsAtomic ==
  (cls = "BitSet" /\ last.op # "idle" /\ last.err # "") => value = last.pre

(***************************************************************************)
(* C9.  write(a, b, c), and write of any other non-empty list of valid     *)
(* flags or indices, returns and leaves the value that set of each of      *)
(* them, applied in any order, leaves.  For BitSet, Bits and BitsN.        *)
(***************************************************************************)
C9_WriteIsSetInAnyOrder ==
  (last.op = "write" /\ last.args # <<>>
     /\ \A i \in 1..Len(last.args) : ValidArg(last.pre, last.args[i]))
    => /\ last.err = ""
       /\ EveryOrderOfSetGives(last.pre, last.args, 1..Len(last.args), value)

\* Bits.write of three different positions, which changed the value
C9_Witness ==
  /\ cls = "Bits" /\ last.op = "write" /\ last.err = ""
  /\ last.args = <<NumArg(0), NumArg(31), NumArg(1)>>
  /\ last.pre = Number(Zero)
  /\ value = Number(Neg(0..30 \ {0, 1}))

(***************************************************************************)
(* C10.  write() with no argument is a no-op: the `value` read after it is *)
(* the `value` read before it, for BitSet, Bits and BitsN and every value  *)
(* an instance can hold.                                                   *)
(***************************************************************************)
C10_EmptyWriteIsNoOp ==
  (last.op = "write" /\ last.args = <<>>)
    => last.err = "" /\ ValueOf(value) = ValueOf(last.pre)

C12_GetIsTwoToTheN ==
  (cls = "BitSet" /\ last.op = "get" /\ IsIndex(last.args[1])
     /\ ValidPosition(last.pre, last.args[1].n))
    => /\ last.err = ""
       /\ last.ret.t = last.pre.t
       /\ last.ret.num =
            (IF BitSet_has(options, last.pre, last.args[1]).ret = RetBool(TRUE)
               THEN Pos({last.args[1].n}) ELSE Zero)

(***************************************************************************)
(* C13.  BitSet.entries(true), iterated to the end, completes without an   *)
(* error, leaves the value alone and yields exactly the pairs [i, has(i)]  *)
(* for i = 0 up to the highest set bit of the value, in ascending order:   *)
(* for every number value in [0, 2^32 - 1], bit 31 set included, and every *)
(* bigint value; for the value zero it yields exactly [0, false].          *)
(***************************************************************************)
C13_EntriesByIndex ==
  (cls = "BitSet" /\ last.op = "entries" /\ last.args = <<BoolArg(TRUE)>>)
    => LET seen == BitSet_value(last.pre)
           top == IF seen.bits = {} THEN 0 ELSE MaxOf(seen.bits)
       IN /\ last.err = ""
          /\ value = last.pre
          /\ last.ret.pairs =
               [i \in 1..(top + 1) |->
                  [k |-> NumArg(i - 1),
                   b |-> BitSet_has(options, last.pre, NumArg(i - 1)).ret.b]]
          /\ (seen.bits = {})
               => last.ret.pairs = <<[k |-> NumArg(0), b |-> FALSE]>>

(***************************************************************************)
(* C14.  BitSet.entries(), entries(false) and the default iterator,        *)
(* iterated to the end, yield exactly one pair [name, has(name)] for each  *)
(* registered flag name, in the order of the registry, for every registry  *)
(* and every value; a second iteration yields the same, and the value is   *)
(* not changed.                                                            *)
(***************************************************************************)
C14_EntriesByName ==
  (cls = "BitSet"
     /\ \/ last.op = "entries" /\ last.args # <<BoolArg(TRUE)>>
        \/ last.op = "iterator")
    => LET flags == NameToIndex(options)
       IN /\ last.err = ""
          /\ value = last.pre
          /\ last.ret.pairs =
               [i \in 1..Len(flags) |->
                  [k |-> StrArg(flags[i].k),
                   b |-> BitSet_has(options, last.pre,
                                    StrArg(flags[i].k)).ret.b]]
          /\ BitSet_entries(options, value, Undefined).ret = last.ret

(***************************************************************************)
(* C15.  The registry BitSet.Instance builds from an enum object (names to *)
(* indices plus the reverse entries, indices to names) holds the name to   *)
(* index pairs only: every key maps to a number, entries() yields one pair *)
(* per flag name and none for a reverse key, and clear() and has() do what *)
(* they do with the plain mapping {a: 0, b: 1, c: 2}.                      *)
(***************************************************************************)
C15_EnumRegistryIsPlain ==
  (cls = "BitSet" /\ options = BitSet_Instance(EnumFlags)
     /\ last.op # "idle")
    => LET plain == NameToIndex(EnumFlags)
       IN /\ \A i \in 1..Len(options) : options[i].v.t = "number"
          /\ (last.op \in {"entries", "iterator"}
                /\ last.args # <<BoolArg(TRUE)>>)
               => /\ last.err = ""
                  /\ last.ret = BitSet_entries(plain, last.pre, Undefined).ret
          /\ (last.op = "clear")
               => value = BitSet_clear(plain, last.pre).v
          /\ (last.op = "has")
               => /\ last.err = BitSet_has(plain, last.pre, last.args[1]).err
                  /\ last.ret = BitSet_has(plain, last.pre, last.args[1]).ret

C17_MalformedStringFails ==
  (cls = "BitSet.Instance"
     /\ last.op \in {"fromBin", "fromHex", "fromBinBigInt", "fromHexBigInt"}
     /\ ~WellFormed(last.op, last.args[1].text))
    => /\ last.err # ""
       /\ last.ret = RetUndefined

C19_BitsValueIsUnsigned ==
  (cls = "Bits" /\ last.op \in {"set", "clear", "toggle", "write"}
     /\ last.err = ""
     /\ ~last.pre.neg /\ last.pre.bits \subseteq 0..31
     /\ \A i \in 1..Len(last.args) : last.args[i].n \in 0..31)
    => LET got == Bits_value(value)
       IN /\ ~got.neg
          /\ got.bits \subseteq 0..31
          /\ Bits_toJSON(value).ret = RetValue(got)

(***************************************************************************)
(* C20.  Single-bit mutators touch only the addressed bit: for BitSet,     *)
(* Bits and BitsN, every reachable value and every index n >= 0, a call    *)
(* set(n), toggle(n) or single-bit clear / delete(n) that returns leaves   *)
(* has(m) as it was for every valid position m # n (an index beyond the    *)
(* range of the value does not wrap around to another bit).                *)
(***************************************************************************)
C20_OnlyTheAddressedBit ==
  ((last.op \in {"set", "toggle"} \/ IsClearBit)
     /\ IsIndex(last.args[1]) /\ last.args[1].n >= 0 /\ last.err = "")
    => \A m \in Positions(last.pre) \ {last.args[1].n} :
         HasOf(value, IndexArg(last.pre, m)).ret
           = HasOf(last.pre, IndexArg(last.pre, m)).ret

(***************************************************************************)
(* C21.  The two kinds agree on positions 0..31: a number-backed and a     *)
(* bigint-backed BitSet over the same registry, created with 0 and 0n and  *)
(* given the same set, delete, toggle and write calls on positions 0..31,  *)
(* both return from every call, and after every step their `value`s are    *)
(* numerically equal and has(n) is the same for every n in 0..31.          *)
(***************************************************************************)
C21_KindsAgree ==
  (cls = "BitSet pair")
    => /\ value.t = "number" /\ twin.t = "bigint"
       /\ last.err = "" /\ last.twinErr = ""
       /\ Raw(BitSet_value(value)) = Raw(BitSet_value(twin))
       /\ \A n \in 0..31 :
            BitSet_has(options, value, NumArg(n)).ret
              = BitSet_has(options, twin, NumArg(n)).ret
       /\ \A i \in 1..Len(NameToIndex(options)) :
            BitSet_has(options, value, StrArg(NameToIndex(options)[i].k)).ret
              = BitSet_has(options, twin, StrArg(NameToIndex(options)[i].k)).ret

\* both instances were given toggle(31): the #value of the number-backed
\* one is negative, that of the bigint-backed one is 2^31
C21_Witness ==
  /\ cls = "BitSet pair" /\ last.op = "x.toggle, y.toggle"
  /\ last.args = <<NumArg(31)>>
  /\ value.neg /\ twin = BigInt(Pos({31}))

====
